---- MODULE Spec2Model ----
(***************************************************************************)
(* Price Guardian: the price-variance reconciliation engine of App.tsx     *)
(* (baseline store, backdating guard, variance classifier, commit engine,  *)
(* ingestion coordinator) and the earlier variant of the application kept  *)
(* in src/unnamed/part_000 (a flat priceBaselines map, no guard).          *)
(*                                                                         *)
(* Prices are integers, one unit standing for 0.0005, so that the 0.01     *)
(* and the 0.001 thresholds of the classifier are both whole numbers.      *)
(* A percentage is an exact fraction [num, den].                           *)
(***************************************************************************)
EXTENDS Integers, Sequences, FiniteSets, TLC

VARIABLES
    variant,        \* which build runs: "current" (App.tsx) or "legacy" (part_000)
    masterItems,    \* App.tsx useState<MasterItem[]>
    priceBaselines, \* part_000 useState<Record<supplier, Record<item, price>>>
    rawInvoices,    \* useState<Invoice[]>, newest ingestion first
    suppliers,      \* App.tsx useState<Supplier[]>
    uploads,        \* position of each running handleFileUpload call
    loading,        \* useState(false)
    now,            \* the value Date.now() returned last
    uploaded,       \* how many files have been handed to handleFileUpload so far
    call,           \* probe: the function applied last and its arguments
    ret             \* probe: what that application returned

vars == <<variant, masterItems, priceBaselines, rawInvoices, suppliers,
          uploads, loading, now, uploaded, call, ret>>

-----------------------------------------------------------------------------
(* Bounds of the model *)

\* calendar days are 1..MaxDay
MaxDay == 2
\* files handed to handleFileUpload in one run of the application
MaxDocs == 2
\* files of one upload batch
MaxFiles == 2
\* handleFileUpload calls that can be in flight together
MaxBatches == 2
\* line items of one extracted document
MaxItems == 2
\* entries of one MasterItem's history
MaxHistory == 3
\* history entries in the whole store in a run of SpecCore
MaxEntries == 3
\* history entries in the whole store in a run of SpecClassify
MaxProbedEntries == 2
\* files handed to handleFileUpload in one run of SpecTimeline
MaxTimelineDocs == 3
\* distinct suffixes Math.random() can give an invoice id (part_000)
RandomSuffixes == 2
\* a time of day is 0..TicksPerDay-1 ticks after midnight
TicksPerDay == 2

-----------------------------------------------------------------------------
(* Date strings and the Date constructor                                   *)
(*                                                                         *)
(* A date string is one of: null (the JSON null the extraction prompt asks *)
(* for when a field is missing), "" (empty), "YYYY-MM-DD" (kind "date"),   *)
(* "YYYY-MM-DDThh:mm:ssZ" (kind "datetime"), or text the Date constructor  *)
(* cannot parse (kind "malformed").                                        *)

NullDate == [kind |-> "null", day |-> 0, tod |-> 0]
EmptyDate == [kind |-> "empty", day |-> 0, tod |-> 0]
MalformedDate == [kind |-> "malformed", day |-> 0, tod |-> 0]
IsoDate(d) == [kind |-> "date", day |-> d, tod |-> 0]
IsoDateTime(d, t) == [kind |-> "datetime", day |-> d, tod |-> t]

Days == 1..MaxDay
DateStrs ==
    {NullDate, EmptyDate, MalformedDate}
        \cup {IsoDate(d) : d \in Days}
        \cup {IsoDateTime(d, t) : d \in Days, t \in 0..(TicksPerDay - 1)}

\* JavaScript !s for a string-or-null s
Falsy(s) == s.kind \in {"null", "empty"}

\* s.split('T')[0]: the text before the first 'T'
SplitT0(s) == IF s.kind = "datetime" THEN IsoDate(s.day) ELSE s

NaN == [nan |-> TRUE, t |-> 0]
Time(n) == [nan |-> FALSE, t |-> n]

\* new Date(s).getTime(): ticks since the epoch, NaN for an invalid date;
\* new Date(null) is the epoch itself
DateGetTime(s) ==
    CASE s.kind = "date" -> Time(s.day * TicksPerDay)
      [] s.kind = "datetime" -> Time(s.day * TicksPerDay + s.tod)
      [] s.kind = "null" -> Time(0)
      [] OTHER -> NaN

\* JavaScript a < b on numbers: false as soon as one side is NaN
NumLt(a, b) == ~a.nan /\ ~b.nan /\ a.t < b.t

\* the comparison without split('T')[0]: the time of day counts
isInvoiceBackdated_NoSplit(invoiceDateStr, masterLastUpdatedStr) ==
    IF Falsy(invoiceDateStr) \/ Falsy(masterLastUpdatedStr) THEN FALSE
    ELSE NumLt(DateGetTime(invoiceDateStr), DateGetTime(masterLastUpdatedStr))

isInvoiceBackdated(invoiceDateStr, masterLastUpdatedStr) ==
    IF Falsy(invoiceDateStr) \/ Falsy(masterLastUpdatedStr) THEN FALSE
    ELSE LET invDate == DateGetTime(SplitT0(invoiceDateStr))
             masterDate == DateGetTime(SplitT0(masterLastUpdatedStr))
         IN  NumLt(invDate, masterDate)

-----------------------------------------------------------------------------
(* Numbers *)

\* 0.01, the noise threshold of the classifier, in price units (1 unit = 0.0005)
NoiseThreshold == 20
\* 0.001, the "already synced" tolerance of the pending queue, in price units
SyncTolerance == 2

Abs(x) == IF x < 0 THEN 0 - x ELSE x

ZeroPct == [num |-> 0, den |-> 1]
\* base ? (diff / base) * 100 : 0
\* the percentage without the test for a base of 0
PercentOf_NoGuard(diff, base) == [num |-> diff * 100, den |-> base]

PercentOf(diff, base) ==
    IF base = 0 THEN ZeroPct ELSE [num |-> diff * 100, den |-> base]

-----------------------------------------------------------------------------
(* The baseline store: MasterItem[] *)

\* Array.prototype.findIndex, 1-based; 0 stands for -1
FindIndex(seq, Test(_)) ==
    IF \E i \in 1..Len(seq) : Test(seq[i])
    THEN CHOOSE i \in 1..Len(seq) :
            Test(seq[i]) /\ \A j \in 1..(i - 1) : ~Test(seq[j])
    ELSE 0

MasterIndex(store, supplierName, itemName) ==
    FindIndex(store, LAMBDA m : m.supplierName = supplierName /\ m.name = itemName)

MasterId(t) == <<"mstr", t>>

\* a seed entry written like the entry of an update
InitialEntry_AsShift(date, price, invoiceNum) ==
    [date |-> date, price |-> price, variance |-> price,
     percentChange |-> [num |-> 100, den |-> 1],
     source |-> "audit", invoiceNumber |-> invoiceNum,
     note |-> <<"Market shift detected in Inv #", invoiceNum>>]

InitialEntry(date, price, invoiceNum) ==
    [date |-> date, price |-> price, variance |-> 0, percentChange |-> ZeroPct,
     source |-> "audit", invoiceNumber |-> invoiceNum,
     note |-> <<"Initial Registration">>]

NewMasterItem(t, supplierName, itemName, price, date, invoiceNum) ==
    [id |-> MasterId(t), supplierName |-> supplierName, name |-> itemName,
     currentPrice |-> price, lastUpdated |-> date,
     history |-> <<InitialEntry(date, price, invoiceNum)>>]

\* an update entry that records the price it replaces
ShiftEntry_OldPrice(item, newPrice, invoiceNum, invDate) ==
    LET variance == newPrice - item.currentPrice
        pct == PercentOf(variance, item.currentPrice)
    IN  [date |-> invDate, price |-> item.currentPrice, variance |-> variance,
         percentChange |-> pct, source |-> "audit", invoiceNumber |-> invoiceNum,
         note |-> <<"Market shift detected in Inv #", invoiceNum>>]

\* an update entry whose variance is taken against the oldest entry
ShiftEntry_FromFirst(item, newPrice, invoiceNum, invDate) ==
    LET variance == newPrice - item.history[Len(item.history)].price
        pct == PercentOf(variance, item.currentPrice)
    IN  [date |-> invDate, price |-> newPrice, variance |-> variance,
         percentChange |-> pct, source |-> "audit", invoiceNumber |-> invoiceNum,
         note |-> <<"Market shift detected in Inv #", invoiceNum>>]

ShiftEntry(item, newPrice, invoiceNum, invDate) ==
    LET variance == newPrice - item.currentPrice
        pct == PercentOf(variance, item.currentPrice)
    IN  [date |-> invDate, price |-> newPrice, variance |-> variance,
         percentChange |-> pct, source |-> "audit", invoiceNumber |-> invoiceNum,
         note |-> <<"Market shift detected in Inv #", invoiceNum>>]

\* the commit without the backdating guard
updateMasterRate_NoGuard(prev, supplierName, itemName, newPrice, invoiceNum, invDate, t) ==
    LET existingIdx == MasterIndex(prev, supplierName, itemName)
    IN  IF existingIdx > 0
        THEN LET item == prev[existingIdx]
                 updated == [item EXCEPT
                     !.currentPrice = newPrice, !.lastUpdated = invDate,
                     !.history = <<ShiftEntry(item, newPrice, invoiceNum, invDate)>>
                                     \o item.history]
             IN  [prev EXCEPT ![existingIdx] = updated]
        ELSE <<NewMasterItem(t, supplierName, itemName, newPrice, invDate, invoiceNum)>>
                 \o prev

\* the commit keeping only the new history entry
updateMasterRate_Prunes(prev, supplierName, itemName, newPrice, invoiceNum, invDate, t) ==
    LET existingIdx == MasterIndex(prev, supplierName, itemName)
    IN  IF existingIdx > 0
        THEN LET item == prev[existingIdx]
             IN  IF isInvoiceBackdated(invDate, item.lastUpdated) THEN prev
                 ELSE [prev EXCEPT ![existingIdx] = [item EXCEPT
                     !.currentPrice = newPrice, !.lastUpdated = invDate,
                     !.history = <<ShiftEntry(item, newPrice, invoiceNum, invDate)>>]]
        ELSE <<NewMasterItem(t, supplierName, itemName, newPrice, invDate, invoiceNum)>>
                 \o prev

\* the commit putting the new entry behind the history
updateMasterRate_Appends(prev, supplierName, itemName, newPrice, invoiceNum, invDate, t) ==
    LET existingIdx == MasterIndex(prev, supplierName, itemName)
    IN  IF existingIdx > 0
        THEN LET item == prev[existingIdx]
             IN  IF isInvoiceBackdated(invDate, item.lastUpdated) THEN prev
                 ELSE [prev EXCEPT ![existingIdx] = [item EXCEPT
                     !.currentPrice = newPrice, !.lastUpdated = invDate,
                     !.history = Append(item.history,
                                        ShiftEntry(item, newPrice, invoiceNum, invDate))]]
        ELSE <<NewMasterItem(t, supplierName, itemName, newPrice, invDate, invoiceNum)>>
                 \o prev

\* the updater updateMasterRate hands to setMasterItems, applied to prev;
\* t is the reading of Date.now() taken for a new id
updateMasterRate(prev, supplierName, itemName, newPrice, invoiceNum, invDate, t) ==
    LET existingIdx == MasterIndex(prev, supplierName, itemName)
    IN  IF existingIdx > 0
        THEN LET item == prev[existingIdx]
             IN  IF isInvoiceBackdated(invDate, item.lastUpdated) THEN prev
                 ELSE LET updated == [item EXCEPT
                              !.currentPrice = newPrice, !.lastUpdated = invDate,
                              !.history =
                                  <<ShiftEntry(item, newPrice, invoiceNum, invDate)>>
                                      \o item.history]
                      IN  [prev EXCEPT ![existingIdx] = updated]
        ELSE <<NewMasterItem(t, supplierName, itemName, newPrice, invDate, invoiceNum)>>
                 \o prev

-----------------------------------------------------------------------------
(* The variance classifier *)

Undefined == [defined |-> FALSE, v |-> 0]
Defined(x) == [defined |-> TRUE, v |-> x]

\* the item classified against the first MasterItem of its name, whatever
\* the supplier
EnrichItem_ByName(inv, item, store) ==
    LET idx == FindIndex(store, LAMBDA m : m.name = item.name)
        isBackdated ==
            IF idx > 0 THEN isInvoiceBackdated(inv.date, store[idx].lastUpdated)
            ELSE FALSE
        baseline ==
            IF isBackdated \/ idx = 0 THEN Undefined
            ELSE Defined(store[idx].currentPrice)
        diff == IF baseline.defined THEN item.unitPrice - baseline.v ELSE 0
        pct == IF baseline.defined THEN PercentOf(diff, baseline.v) ELSE ZeroPct
    IN  [name |-> item.name, unitPrice |-> item.unitPrice,
         previousUnitPrice |-> baseline, priceChange |-> diff, percentChange |-> pct]

\* the item classified against its MasterItem whatever the dates
EnrichItem_IgnoreGuard(inv, item, store) ==
    LET idx == MasterIndex(store, inv.supplierName, item.name)
        baseline == IF idx > 0 THEN Defined(store[idx].currentPrice) ELSE Undefined
        diff == IF baseline.defined THEN item.unitPrice - baseline.v ELSE 0
        pct == IF baseline.defined THEN PercentOf(diff, baseline.v) ELSE ZeroPct
    IN  [name |-> item.name, unitPrice |-> item.unitPrice,
         previousUnitPrice |-> baseline, priceChange |-> diff, percentChange |-> pct]

\* one element of inv.items.map(...) in enrichedInvoices
EnrichItem(inv, item, store) ==
    LET idx == MasterIndex(store, inv.supplierName, item.name)
        isBackdated ==
            IF idx > 0 THEN isInvoiceBackdated(inv.date, store[idx].lastUpdated)
            ELSE FALSE
        baseline ==
            IF isBackdated \/ idx = 0 THEN Undefined
            ELSE Defined(store[idx].currentPrice)
        diff == IF baseline.defined THEN item.unitPrice - baseline.v ELSE 0
        pct == IF baseline.defined THEN PercentOf(diff, baseline.v) ELSE ZeroPct
    IN  [name |-> item.name, unitPrice |-> item.unitPrice,
         previousUnitPrice |-> baseline, priceChange |-> diff, percentChange |-> pct]

\* the status with thresholds that include 0.01 itself
StatusOf_Inclusive(items) ==
    LET hasIncrease == \E i \in 1..Len(items) : items[i].priceChange >= NoiseThreshold
        hasDecrease == \E i \in 1..Len(items) : items[i].priceChange <= 0 - NoiseThreshold
    IN  IF hasIncrease /\ hasDecrease THEN "mixed"
        ELSE IF hasIncrease THEN "price_increase"
        ELSE IF hasDecrease THEN "price_decrease"
        ELSE "matched"

\* the status decided with the tolerance of the 'already synced' test
StatusOf_Tolerance(items) ==
    LET hasIncrease == \E i \in 1..Len(items) : items[i].priceChange > SyncTolerance
        hasDecrease == \E i \in 1..Len(items) : items[i].priceChange < 0 - SyncTolerance
    IN  IF hasIncrease /\ hasDecrease THEN "mixed"
        ELSE IF hasIncrease THEN "price_increase"
        ELSE IF hasDecrease THEN "price_decrease"
        ELSE "matched"

\* the status enrichedInvoices derives from the classified items
StatusOf(items) ==
    LET hasIncrease == \E i \in 1..Len(items) : items[i].priceChange > NoiseThreshold
        hasDecrease == \E i \in 1..Len(items) : items[i].priceChange < 0 - NoiseThreshold
    IN  IF hasIncrease /\ hasDecrease THEN "mixed"
        ELSE IF hasIncrease THEN "price_increase"
        ELSE IF hasDecrease THEN "price_decrease"
        ELSE "matched"

EnrichInvoice(inv, store) ==
    LET itemsWithVariances ==
            [i \in 1..Len(inv.items) |-> EnrichItem(inv, inv.items[i], store)]
    IN  [inv EXCEPT !.items = itemsWithVariances, !.status = StatusOf(itemsWithVariances)]

\* (a, b) => new Date(b.date).getTime() - new Date(a.date).getTime() > 0:
\* a sorts after b. A NaN difference counts as 0.
SortsAfter(a, b) == NumLt(DateGetTime(a.date), DateGetTime(b.date))

\* Array.prototype.sort with that comparator: stable; computed by insertion
RECURSIVE InsertByDate(_, _)
InsertByDate(sorted, x) ==
    IF sorted = <<>> THEN <<x>>
    ELSE LET last == sorted[Len(sorted)]
         IN  IF SortsAfter(last, x)
             THEN InsertByDate(SubSeq(sorted, 1, Len(sorted) - 1), x) \o <<last>>
             ELSE sorted \o <<x>>

RECURSIVE SortByDateDesc(_)
SortByDateDesc(seq) ==
    IF seq = <<>> THEN <<>>
    ELSE InsertByDate(SortByDateDesc(SubSeq(seq, 1, Len(seq) - 1)), seq[Len(seq)])

enrichedInvoicesOf(invoices, store) ==
    SortByDateDesc([i \in 1..Len(invoices) |-> EnrichInvoice(invoices[i], store)])

\* the pending record pushed for every item the store has not synced
PendingOfItem_NoThreshold(inv, item, store) ==
    LET idx == MasterIndex(store, inv.supplierName, item.name)
        isSynced ==
            idx > 0 /\ Abs(store[idx].currentPrice - item.unitPrice) < SyncTolerance
    IN  IF isSynced THEN <<>>
        ELSE <<[key |-> <<inv.id, item.name>>, invoiceId |-> inv.id,
                invoiceNumber |-> inv.invoiceNumber, date |-> inv.date,
                supplierName |-> inv.supplierName, itemName |-> item.name,
                oldPrice |-> IF item.previousUnitPrice.defined
                             THEN item.previousUnitPrice.v ELSE 0,
                newPrice |-> item.unitPrice, variance |-> item.priceChange,
                pct |-> item.percentChange,
                masterItemId |-> IF idx > 0 THEN Defined(store[idx].id)
                                 ELSE Undefined]>>

\* the record pendingVariances pushes for one enriched item, or nothing
PendingOfItem(inv, item, store) ==
    IF Abs(item.priceChange) > NoiseThreshold
    THEN LET idx == MasterIndex(store, inv.supplierName, item.name)
             isSynced ==
                 idx > 0 /\ Abs(store[idx].currentPrice - item.unitPrice) < SyncTolerance
         IN  IF isSynced THEN <<>>
             ELSE <<[key |-> <<inv.id, item.name>>, invoiceId |-> inv.id,
                     invoiceNumber |-> inv.invoiceNumber, date |-> inv.date,
                     supplierName |-> inv.supplierName, itemName |-> item.name,
                     oldPrice |-> IF item.previousUnitPrice.defined
                                  THEN item.previousUnitPrice.v ELSE 0,
                     newPrice |-> item.unitPrice, variance |-> item.priceChange,
                     pct |-> item.percentChange,
                     masterItemId |-> IF idx > 0 THEN Defined(store[idx].id)
                                      ELSE Undefined]>>
    ELSE <<>>

RECURSIVE PendingOfItems(_, _, _, _)
PendingOfItems(inv, items, k, store) ==
    IF k > Len(items) THEN <<>>
    ELSE PendingOfItem(inv, items[k], store) \o PendingOfItems(inv, items, k + 1, store)

RECURSIVE PendingOfInvoices(_, _, _)
PendingOfInvoices(enriched, k, store) ==
    IF k > Len(enriched) THEN <<>>
    ELSE PendingOfItems(enriched[k], enriched[k].items, 1, store)
             \o PendingOfInvoices(enriched, k + 1, store)

pendingVariancesOf(invoices, store) ==
    SortByDateDesc(PendingOfInvoices(enrichedInvoicesOf(invoices, store), 1, store))

enrichedInvoices == enrichedInvoicesOf(rawInvoices, masterItems)
pendingVariances == pendingVariancesOf(rawInvoices, masterItems)

-----------------------------------------------------------------------------
(* Ingestion: what handleFileUpload does with one extracted record *)

InvoiceId(t) == <<"inv", t>>

\* { ...data, id, isPaid: false, isHold: false, status: 'matched', ... }
NewInvoice(data, t) ==
    [id |-> InvoiceId(t), supplierName |-> data.supplierName, date |-> data.date,
     invoiceNumber |-> data.invoiceNumber, items |-> data.items,
     isPaid |-> FALSE, isHold |-> FALSE, status |-> "matched"]

\* registration replacing the MasterItem of a pair it finds
RECURSIVE RegisterItems_Overwrite(_, _, _, _)
RegisterItems_Overwrite(next, data, k, t) ==
    IF k > Len(data.items) THEN next
    ELSE LET item == data.items[k]
             idx == MasterIndex(next, data.supplierName, item.name)
             fresh == NewMasterItem(t, data.supplierName, item.name, item.unitPrice,
                                    data.date, data.invoiceNumber)
         IN  RegisterItems_Overwrite(
                 IF idx = 0 THEN Append(next, fresh) ELSE [next EXCEPT ![idx] = fresh],
                 data, k + 1, t)

\* registration going through the lines last to first
RECURSIVE RegisterItems_LastWins(_, _, _, _)
RegisterItems_LastWins(next, data, k, t) ==
    IF k > Len(data.items) THEN next
    ELSE LET item == data.items[Len(data.items) + 1 - k]
             exists == MasterIndex(next, data.supplierName, item.name) > 0
         IN  RegisterItems_LastWins(
                 IF exists THEN next
                 ELSE Append(next, NewMasterItem(t, data.supplierName, item.name,
                                                 item.unitPrice, data.date,
                                                 data.invoiceNumber)),
                 data, k + 1, t)

\* registration without the lookup of the pair
RECURSIVE RegisterItems_NoLookup(_, _, _, _)
RegisterItems_NoLookup(next, data, k, t) ==
    IF k > Len(data.items) THEN next
    ELSE LET item == data.items[k]
         IN  RegisterItems_NoLookup(
                 Append(next, NewMasterItem(t, data.supplierName, item.name,
                                            item.unitPrice, data.date,
                                            data.invoiceNumber)),
                 data, k + 1, t)

\* registration that looks at the first line of the document only
RegisterItems_FirstOnly(next, data, k, t) ==
    IF MasterIndex(next, data.supplierName, data.items[1].name) > 0 THEN next
    ELSE Append(next, NewMasterItem(t, data.supplierName, data.items[1].name,
                                    data.items[1].unitPrice, data.date,
                                    data.invoiceNumber))

\* the updater handed to setMasterItems: data.items.forEach over next = [...prev]
RECURSIVE RegisterItems(_, _, _, _)
RegisterItems(next, data, k, t) ==
    IF k > Len(data.items) THEN next
    ELSE LET item == data.items[k]
             exists == MasterIndex(next, data.supplierName, item.name) > 0
         IN  RegisterItems(
                 IF exists THEN next
                 ELSE Append(next, NewMasterItem(t, data.supplierName, item.name,
                                                 item.unitPrice, data.date,
                                                 data.invoiceNumber)),
                 data, k + 1, t)

\* a string that is null or undefined
Absent == "(absent)"
\* the string ""
EmptyString == ""
ContactFields == {"bankAccount", "address", "abn", "tel", "email", "creditTerm"}

\* the incoming value standing whenever it is not null
OrElse_NonNull(incoming, existing) == IF incoming # Absent THEN incoming ELSE existing

\* data.x || existing?.x: null, undefined and "" give way to the existing value
OrElse(incoming, existing) ==
    IF incoming \notin {Absent, EmptyString} THEN incoming ELSE existing

SupplierId(t) == <<"sup", t>>

\* the updater handed to setSuppliers
RegisterSupplier(prev, data, t) ==
    LET idx == FindIndex(prev, LAMBDA s : s.name = data.supplierName)
        supDetails ==
            [f \in ContactFields |->
                OrElse(data.contact[f], IF idx > 0 THEN prev[idx].details[f] ELSE Absent)]
    IN  IF idx > 0
        THEN [i \in 1..Len(prev) |->
                 IF prev[i].name = data.supplierName
                 THEN [prev[i] EXCEPT !.details = supDetails] ELSE prev[i]]
        ELSE Append(prev, [id |-> SupplierId(t), name |-> data.supplierName,
                           totalSpent |-> 0, details |-> supDetails])

-----------------------------------------------------------------------------
(* The earlier variant (part_000): priceBaselines[supplier][item] *)

HasBaseline(baselines, supplierName, itemName) ==
    <<supplierName, itemName>> \in DOMAIN baselines

\* priceBaselines[inv.supplierName]?.[item.name]
BaselineOf(baselines, supplierName, itemName) ==
    IF HasBaseline(baselines, supplierName, itemName)
    THEN Defined(baselines[<<supplierName, itemName>>]) ELSE Undefined

SetBaseline(baselines, supplierName, itemName, price) ==
    [p \in DOMAIN baselines \cup {<<supplierName, itemName>>} |->
        IF p = <<supplierName, itemName>> THEN price ELSE baselines[p]]

\* the updater handed to setPriceBaselines by handleFileUpload
RECURSIVE LegacyRegisterItems(_, _, _)
LegacyRegisterItems(baselines, data, k) ==
    IF k > Len(data.items) THEN baselines
    ELSE LET item == data.items[k]
         IN  LegacyRegisterItems(
                 IF HasBaseline(baselines, data.supplierName, item.name) THEN baselines
                 ELSE SetBaseline(baselines, data.supplierName, item.name, item.unitPrice),
                 data, k + 1)

LegacyInvoiceId(t, r) == <<"inv", t, r>>

LegacyNewInvoice(data, t, r) ==
    [id |-> LegacyInvoiceId(t, r), supplierName |-> data.supplierName,
     date |-> data.date, invoiceNumber |-> data.invoiceNumber, items |-> data.items,
     isPaid |-> FALSE, isHold |-> FALSE, status |-> "matched"]

LegacyEnrichItem(inv, item, baselines) ==
    LET baseline == BaselineOf(baselines, inv.supplierName, item.name)
        diff == IF baseline.defined THEN item.unitPrice - baseline.v ELSE 0
        pct == IF baseline.defined THEN PercentOf(diff, baseline.v) ELSE ZeroPct
    IN  [name |-> item.name, unitPrice |-> item.unitPrice,
         previousUnitPrice |-> baseline, priceChange |-> diff, percentChange |-> pct]

LegacyEnrichInvoice(inv, baselines) ==
    LET itemsWithVariances ==
            [i \in 1..Len(inv.items) |-> LegacyEnrichItem(inv, inv.items[i], baselines)]
    IN  [inv EXCEPT !.items = itemsWithVariances, !.status = StatusOf(itemsWithVariances)]

legacyEnrichedInvoicesOf(invoices, baselines) ==
    SortByDateDesc([i \in 1..Len(invoices) |-> LegacyEnrichInvoice(invoices[i], baselines)])

-----------------------------------------------------------------------------
(* Inputs *)

SupplierNames == {"Acme", "Bolt"}
ItemNames == {"Widget", "Gadget"}
InvoiceNumbers == {"INV-1"}
\* 1.00 and 1.20
Prices == {2000, 2400}
\* the dates extractInvoiceData returns in a run of the application
InvoiceDates == {NullDate} \cup {IsoDate(d) : d \in Days}

NoContact == [f \in ContactFields |-> Absent]
Contacts == {NoContact}

LineItems == [name : ItemNames, unitPrice : Prices]
ItemSeqs == UNION {[1..n -> LineItems] : n \in 1..MaxItems}

\* the records extractInvoiceData can resolve with
AllExtractions ==
    [supplierName : SupplierNames, date : InvoiceDates, invoiceNumber : InvoiceNumbers,
     items : ItemSeqs, contact : Contacts]

\* the documents of one supplier
Extractions == {data \in AllExtractions : data.supplierName = "Acme"}

\* documents seen by the earlier variant, which never reads a date
LegacyExtractions == {data \in Extractions : data.date = IsoDate(1)}

\* one (supplier, item) pair invoiced again and again, one line per document
TimelineExtractions ==
    {data \in Extractions : Len(data.items) = 1 /\ data.items[1].name = "Widget"}

\* documents of one day whose lines all name one item
LedgerExtractions ==
    {data \in Extractions :
        /\ data.date = IsoDate(1)
        /\ \A k \in 1..Len(data.items) : data.items[k].name = "Widget"}

Batches == 1..MaxBatches

-----------------------------------------------------------------------------
(* The application *)

NoCall == [fn |-> "none"]
NoRet == [done |-> FALSE]

Idle == [pc |-> "idle", remaining |-> 0]

\* the state after construction, nothing saved in localStorage
InitStores ==
    /\ masterItems = <<>>
    /\ priceBaselines = <<>>
    /\ rawInvoices = <<>>
    /\ suppliers = <<>>
    /\ uploads = [b \in Batches |-> Idle]
    /\ loading = FALSE
    /\ now = 0
    /\ uploaded = 0
    /\ ret = NoRet

Init ==
    /\ variant \in {"current", "legacy"}
    /\ call = NoCall
    /\ InitStores

InitCurrent ==
    /\ variant = "current"
    /\ call = NoCall
    /\ InitStores

\* Date.now(): since its last reading (now; 0 before the first one) the clock
\* has stood still or moved on
ClockReadings == IF now = 0 THEN {1} ELSE {now, now + 1}

\* handleFileUpload is called with n files and runs up to its first await
StartUpload(b, n, maxDocs) ==
    /\ uploads[b].pc = "idle"
    /\ uploaded + n <= maxDocs
    /\ loading' = TRUE
    /\ uploads' = [uploads EXCEPT ![b] = [pc |-> "read", remaining |-> n]]
    /\ uploaded' = uploaded + n
    /\ UNCHANGED <<variant, masterItems, priceBaselines, rawInvoices, suppliers, now,
                   call, ret>>

\* reader.onload resolves the promise the loop awaits
FileLoaded(b) ==
    /\ uploads[b].pc = "read"
    /\ uploads' = [uploads EXCEPT ![b].pc = "extract"]
    /\ UNCHANGED <<variant, masterItems, priceBaselines, rawInvoices, suppliers,
                   loading, now, uploaded, call, ret>>

\* the loop left after the file at hand, whatever remains
NextFile_Cancels(b) ==
    /\ uploads' = [uploads EXCEPT ![b] = Idle]
    /\ loading' = FALSE

\* the loop goes to its next file, or leaves: setLoading(false)
NextFile(b) ==
    LET left == uploads[b].remaining - 1
    IN  /\ uploads' = [uploads EXCEPT
                          ![b] = IF left = 0 THEN Idle
                                 ELSE [pc |-> "read", remaining |-> left]]
        /\ loading' = IF left = 0 THEN FALSE ELSE loading

\* App.tsx: extractInvoiceData resolves with data; the rest of the try block runs
ExtractResolved(b, data, t) ==
    /\ variant = "current"
    /\ uploads[b].pc = "extract"
    /\ now' = t
    /\ suppliers' = RegisterSupplier(suppliers, data, t)
    /\ masterItems' = RegisterItems(masterItems, data, 1, t)
    /\ rawInvoices' = <<NewInvoice(data, t)>> \o rawInvoices
    /\ NextFile(b)
    /\ UNCHANGED <<variant, priceBaselines, uploaded, call, ret>>

\* part_000: the same step of the earlier variant
LegacyExtractResolved(b, data, t, r) ==
    /\ variant = "legacy"
    /\ uploads[b].pc = "extract"
    /\ now' = t
    /\ priceBaselines' = LegacyRegisterItems(priceBaselines, data, 1)
    /\ rawInvoices' = <<LegacyNewInvoice(data, t, r)>> \o rawInvoices
    /\ NextFile(b)
    /\ UNCHANGED <<variant, masterItems, suppliers, uploaded, call, ret>>

\* extractInvoiceData rejects; the catch block reports it
ExtractRejected(b) ==
    /\ uploads[b].pc = "extract"
    /\ NextFile(b)
    /\ UNCHANGED <<variant, masterItems, priceBaselines, rawInvoices, suppliers, now,
                   uploaded, call, ret>>

\* every commit of the batch computed from the store the batch found: the
\* last one stands
CommitAll_Stale(store, records, k, t) ==
    IF k > Len(records) THEN store
    ELSE updateMasterRate(store, records[Len(records)].supplierName,
                          records[Len(records)].itemName, records[Len(records)].newPrice,
                          records[Len(records)].invoiceNumber, records[Len(records)].date, t)

\* selected.forEach(v => updateMasterRate(...)): the queued updaters run in order
RECURSIVE CommitAll(_, _, _, _)
CommitAll(store, records, k, t) ==
    IF k > Len(records) THEN store
    ELSE CommitAll(
             updateMasterRate(store, records[k].supplierName, records[k].itemName,
                              records[k].newPrice, records[k].invoiceNumber,
                              records[k].date, t),
             records, k + 1, t)

HistoryBounded(store) == \A i \in 1..Len(store) : Len(store[i].history) <= MaxHistory

\* updateMasterRate reads Date.now() only when it creates a MasterItem
CommitClock(store, records) ==
    IF \A k \in 1..Len(records) :
           MasterIndex(store, records[k].supplierName, records[k].itemName) > 0
    THEN {now} ELSE ClockReadings

\* the check button of the row of pending record v
AcceptVariance(v, t) ==
    /\ variant = "current"
    /\ masterItems' = updateMasterRate(masterItems, v.supplierName, v.itemName,
                                       v.newPrice, v.invoiceNumber, v.date, t)
    /\ HistoryBounded(masterItems')
    /\ now' = t
    /\ UNCHANGED <<variant, priceBaselines, rawInvoices, suppliers, uploads, loading,
                   uploaded, call, ret>>

\* acceptSelectedVariances with varianceSelection = selection
acceptSelectedVariances(pending, selection, t) ==
    /\ variant = "current"
    /\ selection # {}
    /\ LET selected == SelectSeq(pending, LAMBDA v : v.key \in selection)
       IN  masterItems' = CommitAll(masterItems, selected, 1, t)
    /\ HistoryBounded(masterItems')
    /\ now' = t
    /\ UNCHANGED <<variant, priceBaselines, rawInvoices, suppliers, uploads, loading,
                   uploaded, call, ret>>

KeysOf(pending) == {pending[k].key : k \in 1..Len(pending)}
InvoiceIds == {rawInvoices[i].id : i \in 1..Len(rawInvoices)}

\* part_000: the "Update Master Rate" button of item k of the invoice shown,
\* offered when the item's priceChange is above 0
handleUpdateBaseline(i, k) ==
    /\ variant = "legacy"
    /\ k \in 1..Len(rawInvoices[i].items)
    /\ LET inv == LegacyEnrichInvoice(rawInvoices[i], priceBaselines)
       IN  /\ inv.items[k].priceChange > 0
           /\ priceBaselines' = SetBaseline(priceBaselines, inv.supplierName,
                                            inv.items[k].name, inv.items[k].unitPrice)
    /\ UNCHANGED <<variant, masterItems, rawInvoices, suppliers, uploads, loading, now,
                   uploaded, call, ret>>

\* { ...inv, isPaid, isHold } for the invoices whose id passes Chosen
MarkInvoices(invoices, Chosen(_), paid, hold) ==
    [i \in 1..Len(invoices) |->
        IF Chosen(invoices[i].id)
        THEN [invoices[i] EXCEPT !.isPaid = paid, !.isHold = hold]
        ELSE invoices[i]]

\* the "Mark Settled" and "Put on Hold" buttons, with bulkSelection = selection
bulkMarkStatus(selection, status) ==
    /\ variant = "current"
    /\ selection # {}
    /\ rawInvoices' = MarkInvoices(rawInvoices, LAMBDA id : id \in selection,
                                   status = "paid", status = "hold")
    /\ UNCHANGED <<variant, masterItems, priceBaselines, suppliers, uploads, loading,
                   now, uploaded, call, ret>>

\* a detail modal setting the flag it is asked for and leaving the other
onStatusChange_KeepsOther(id, status) ==
    /\ variant = "current"
    /\ rawInvoices' = [i \in 1..Len(rawInvoices) |->
                          IF rawInvoices[i].id # id THEN rawInvoices[i]
                          ELSE IF status = "paid" THEN [rawInvoices[i] EXCEPT !.isPaid = TRUE]
                          ELSE IF status = "hold" THEN [rawInvoices[i] EXCEPT !.isHold = TRUE]
                          ELSE [rawInvoices[i] EXCEPT !.isPaid = FALSE, !.isHold = FALSE]]
    /\ UNCHANGED <<variant, masterItems, priceBaselines, suppliers, uploads, loading,
                   now, uploaded, call, ret>>

\* onStatusChange(id, status) of the invoice detail modal
onStatusChange(id, status) ==
    /\ variant = "current"
    /\ rawInvoices' = MarkInvoices(rawInvoices, LAMBDA other : other = id,
                                   status = "paid", status = "hold")
    /\ UNCHANGED <<variant, masterItems, priceBaselines, suppliers, uploads, loading,
                   now, uploaded, call, ret>>

\* the "Remove Selection" button, confirmed, with bulkSelection = selection
bulkDelete(selection) ==
    /\ variant = "current"
    /\ selection # {}
    /\ rawInvoices' = SelectSeq(rawInvoices, LAMBDA inv : inv.id \notin selection)
    /\ UNCHANGED <<variant, masterItems, priceBaselines, suppliers, uploads, loading,
                   now, uploaded, call, ret>>

\* the "Remove Record" button of a row, confirmed
removeInvoice(id) ==
    /\ variant = "current"
    /\ rawInvoices' = SelectSeq(rawInvoices, LAMBDA inv : inv.id # id)
    /\ UNCHANGED <<variant, masterItems, priceBaselines, suppliers, uploads, loading,
                   now, uploaded, call, ret>>

\* part_000: onDelete of the invoice shown, confirmed
deleteInvoice(id) ==
    /\ variant = "legacy"
    /\ rawInvoices' = SelectSeq(rawInvoices, LAMBDA inv : inv.id # id)
    /\ UNCHANGED <<variant, masterItems, priceBaselines, suppliers, uploads, loading,
                   now, uploaded, call, ret>>

\* the payment ledger: paid/hold marks and deletion of invoices
Ledger ==
    \/ \E selection \in SUBSET InvoiceIds, status \in {"paid", "hold"} :
           bulkMarkStatus(selection, status)
    \/ \E id \in InvoiceIds, status \in {"paid", "hold", "outstanding"} :
           onStatusChange(id, status)
    \/ \E selection \in SUBSET InvoiceIds : bulkDelete(selection)
    \/ \E id \in InvoiceIds : removeInvoice(id)
    \/ \E id \in InvoiceIds : deleteInvoice(id)

\* the upload loop, whatever the variant
Uploading(maxDocs) ==
    \/ \E b \in Batches, n \in 1..MaxFiles : StartUpload(b, n, maxDocs)
    \/ \E b \in Batches : FileLoaded(b)
    \/ \E b \in Batches : ExtractRejected(b)

\* App.tsx: ingestion and the accept actions
Reconciling(docs) ==
    \/ \E b \in Batches, data \in docs, t \in ClockReadings : ExtractResolved(b, data, t)
    \/ LET pending == IF variant = "current" THEN pendingVariances ELSE <<>>
       IN  \E k \in 1..Len(pending) :
               \E t \in CommitClock(masterItems, <<pending[k]>>) :
                   AcceptVariance(pending[k], t)
    \/ LET pending == IF variant = "current" THEN pendingVariances ELSE <<>>
       IN  \E selection \in SUBSET KeysOf(pending) :
               \E t \in CommitClock(masterItems, pending) :
                   acceptSelectedVariances(pending, selection, t)

\* part_000: ingestion and the master-rate button
LegacyReconciling(docs) ==
    \/ \E b \in Batches, data \in docs, t \in ClockReadings, r \in 1..RandomSuffixes :
           LegacyExtractResolved(b, data, t, r)
    \/ \E i \in 1..Len(rawInvoices), k \in 1..MaxItems : handleUpdateBaseline(i, k)

Next ==
    \/ Uploading(MaxDocs)
    \/ Reconciling(Extractions)
    \/ LegacyReconciling(LegacyExtractions)

Spec == Init /\ [][Next]_vars

-----------------------------------------------------------------------------
(* The backdating guard on its own: isInvoiceBackdated applied to a pair of *)
(* date strings                                                            *)

InitGuard ==
    /\ variant = "current"
    /\ call \in [fn : {"isInvoiceBackdated"}, invoiceDateStr : DateStrs,
                 masterLastUpdatedStr : DateStrs]
    /\ InitStores

GuardReturns ==
    /\ call.fn = "isInvoiceBackdated"
    /\ ~ret.done
    /\ ret' = [done |-> TRUE,
               value |-> isInvoiceBackdated(call.invoiceDateStr,
                                            call.masterLastUpdatedStr)]
    /\ UNCHANGED <<variant, masterItems, priceBaselines, rawInvoices, suppliers,
                   uploads, loading, now, uploaded, call>>

SpecGuard == InitGuard /\ [][GuardReturns]_vars

\* the calendar day a date string names, when it names one
NamesDay(s) == s.kind \in {"date", "datetime"}

\* C2: isInvoiceBackdated returns true exactly when both strings are present
\* and parseable and the invoice's calendar day is strictly earlier than the
\* baseline's; the time of day after 'T' plays no part.
C2_GuardIsStrictDayOrder ==
    (call.fn = "isInvoiceBackdated" /\ ret.done) =>
        (ret.value <=>
            /\ NamesDay(call.invoiceDateStr)
            /\ NamesDay(call.masterLastUpdatedStr)
            /\ call.invoiceDateStr.day < call.masterLastUpdatedStr.day)

\* the guard has answered true for an earlier day carrying a later time of day
C2_Witness ==
    /\ call.fn = "isInvoiceBackdated"
    /\ ret.done
    /\ ret.value
    /\ call.invoiceDateStr.kind = "datetime"
    /\ call.masterLastUpdatedStr.kind = "datetime"
    /\ call.invoiceDateStr.tod > call.masterLastUpdatedStr.tod

-----------------------------------------------------------------------------
(* The commit engine on its own: updateMasterRate applied to arguments of  *)
(* any kind, on the stores earlier commits have built                      *)

\* 0 and 1.00
CorePrices == {0, 2000}

\* two items of one supplier and an item of that name of another supplier
CorePairs == {<<"Acme", "Widget">>, <<"Acme", "Gadget">>, <<"Bolt", "Widget">>}

CommitArgs ==
    {args \in [supplierName : SupplierNames, itemName : ItemNames,
               newPrice : CorePrices, invoiceNum : InvoiceNumbers,
               invDate : InvoiceDates] :
        <<args.supplierName, args.itemName>> \in CorePairs}

RECURSIVE TotalEntries(_, _)
TotalEntries(store, k) ==
    IF k > Len(store) THEN 0 ELSE Len(store[k].history) + TotalEntries(store, k + 1)

\* updateMasterRate(args): its updater applied to the store
CommitCall(args, t, maxEntries) ==
    /\ variant = "current"
    /\ masterItems' = updateMasterRate(masterItems, args.supplierName, args.itemName,
                                       args.newPrice, args.invoiceNum, args.invDate, t)
    /\ TotalEntries(masterItems', 1) <= maxEntries
    /\ now' = t
    /\ call' = [fn |-> "updateMasterRate", args |-> args, prev |-> masterItems]
    /\ ret' = NoRet
    /\ UNCHANGED <<variant, priceBaselines, rawInvoices, suppliers, uploads, loading,
                   uploaded>>

Committing(maxEntries) ==
    \E args \in CommitArgs :
        \E t \in CommitClock(masterItems, <<[supplierName |-> args.supplierName,
                                             itemName |-> args.itemName]>>) :
            CommitCall(args, t, maxEntries)

CoreNext == Committing(MaxEntries)

SpecCore == InitCurrent /\ [][CoreNext]_vars

\* the arguments of the commit made last, and the item they name in the store
\* the commit found
Committed == call.fn = "updateMasterRate"
TargetsOf(store, args) ==
    {i \in 1..Len(store) :
        store[i].supplierName = args.supplierName /\ store[i].name = args.itemName}

\* C3: a commit for an existing pair whose invoice date the guard reports as
\* backdated against the item's lastUpdated leaves the whole store as it was.
C3_BackdatedCommitIsNoOp ==
    Committed =>
        \A i \in TargetsOf(call.prev, call.args) :
            isInvoiceBackdated(call.args.invDate, call.prev[i].lastUpdated)
                => masterItems = call.prev

\* a commit dated day 1 has met an item anchored on day 2, at another price
C3_Witness ==
    /\ Committed
    /\ \E i \in TargetsOf(call.prev, call.args) :
           /\ call.prev[i].lastUpdated = IsoDate(2)
           /\ call.args.invDate = IsoDate(1)
           /\ call.args.newPrice # call.prev[i].currentPrice

\* a fraction equal to num / den
IsFraction(p, num, den) == p.den # 0 /\ p.num * den = num * p.den

\* C4: a commit for an existing pair that is not backdated sets currentPrice
\* and lastUpdated, puts exactly one entry (price, date, variance against the
\* previous price, percentChange of it, 0 for a previous price of 0) in front
\* of the history, and changes no other item and no position.
C4_CommitUpdatesInPlace ==
    Committed =>
        \A i \in TargetsOf(call.prev, call.args) :
            ~isInvoiceBackdated(call.args.invDate, call.prev[i].lastUpdated) =>
                LET old == call.prev[i]
                    variance == call.args.newPrice - old.currentPrice
                IN  /\ Len(masterItems) = Len(call.prev)
                    /\ \A j \in 1..Len(call.prev) : j # i => masterItems[j] = call.prev[j]
                    /\ masterItems[i].id = old.id
                    /\ masterItems[i].supplierName = old.supplierName
                    /\ masterItems[i].name = old.name
                    /\ masterItems[i].currentPrice = call.args.newPrice
                    /\ masterItems[i].lastUpdated = call.args.invDate
                    /\ Len(masterItems[i].history) = Len(old.history) + 1
                    /\ Tail(masterItems[i].history) = old.history
                    /\ LET e == Head(masterItems[i].history)
                       IN  /\ e.price = call.args.newPrice
                           /\ e.date = call.args.invDate
                           /\ e.variance = variance
                           /\ IF old.currentPrice = 0
                              THEN IsFraction(e.percentChange, 0, 1)
                              ELSE IsFraction(e.percentChange, variance * 100,
                                              old.currentPrice)

\* a commit has repriced the second item of a store of two, from 1.00 to 0
C4_Witness ==
    /\ Committed
    /\ Len(call.prev) = 2
    /\ TargetsOf(call.prev, call.args) = {2}
    /\ call.prev[2].currentPrice = 2000
    /\ call.args.newPrice = 0
    /\ Len(masterItems[2].history) = 2

\* seq without its i-th element
RemoveAt(seq, i) == SubSeq(seq, 1, i - 1) \o SubSeq(seq, i + 1, Len(seq))

\* C5: a commit for a pair that has no MasterItem creates exactly one, with
\* currentPrice = newPrice, lastUpdated = the invoice date and one history entry
\* of variance 0, percentChange 0 and note 'Initial Registration'; the items
\* that existed are unchanged.
C5_CommitCreatesMissingItem ==
    (Committed /\ TargetsOf(call.prev, call.args) = {}) =>
        /\ Len(masterItems) = Len(call.prev) + 1
        /\ \E i \in 1..Len(masterItems) :
               /\ RemoveAt(masterItems, i) = call.prev
               /\ masterItems[i].supplierName = call.args.supplierName
               /\ masterItems[i].name = call.args.itemName
               /\ masterItems[i].currentPrice = call.args.newPrice
               /\ masterItems[i].lastUpdated = call.args.invDate
               /\ Len(masterItems[i].history) = 1
               /\ masterItems[i].history[1].price = call.args.newPrice
               /\ masterItems[i].history[1].date = call.args.invDate
               /\ masterItems[i].history[1].variance = 0
               /\ IsFraction(masterItems[i].history[1].percentChange, 0, 1)
               /\ masterItems[i].history[1].note = <<"Initial Registration">>

\* a commit has created a third item beside two that existed
C5_Witness ==
    /\ Committed
    /\ TargetsOf(call.prev, call.args) = {}
    /\ Len(call.prev) = 2
    /\ Len(masterItems) = 3

-----------------------------------------------------------------------------
(* The classifier on its own: one invoice classified against the stores    *)
(* commits have built, registered pair or not                              *)

\* 0, 1.00 and 1.20
ProbePrices == CorePrices \cup Prices

\* invoices of one line, of any supplier, item, price and date
ProbeInvoices ==
    {NewInvoice([supplierName |-> s, date |-> d, invoiceNumber |-> n,
                 items |-> <<[name |-> i, unitPrice |-> p]>>, contact |-> NoContact], 1) :
        s \in SupplierNames, d \in InvoiceDates, n \in InvoiceNumbers,
        i \in ItemNames, p \in ProbePrices}

\* one element of rawInvoices.map(...) in enrichedInvoices, for invoice inv
ClassifyCall(inv) ==
    /\ variant = "current"
    /\ call' = [fn |-> "enrichedInvoices", inv |-> inv]
    /\ ret' = [done |-> TRUE, value |-> EnrichInvoice(inv, masterItems)]
    /\ UNCHANGED <<variant, masterItems, priceBaselines, rawInvoices, suppliers,
                   uploads, loading, now, uploaded>>

\* part_000: handleUpdateBaseline(supplier, item, newPrice)
LegacyBaselineCall(args) ==
    /\ variant = "legacy"
    /\ priceBaselines' = SetBaseline(priceBaselines, args.supplierName, args.itemName,
                                     args.newPrice)
    /\ call' = [fn |-> "handleUpdateBaseline", args |-> args, prev |-> priceBaselines]
    /\ ret' = NoRet
    /\ UNCHANGED <<variant, masterItems, rawInvoices, suppliers, uploads, loading, now,
                   uploaded>>

\* part_000: one element of rawInvoices.map(...) in enrichedInvoices
LegacyClassifyCall(inv) ==
    /\ variant = "legacy"
    /\ call' = [fn |-> "legacyEnrichedInvoices", inv |-> inv]
    /\ ret' = [done |-> TRUE, value |-> LegacyEnrichInvoice(inv, priceBaselines)]
    /\ UNCHANGED <<variant, masterItems, priceBaselines, rawInvoices, suppliers,
                   uploads, loading, now, uploaded>>

ClassifyNext ==
    \/ Committing(MaxProbedEntries)
    \/ \E inv \in ProbeInvoices : ClassifyCall(inv)
    \/ \E args \in CommitArgs : LegacyBaselineCall(args)
    \/ \E inv \in ProbeInvoices : LegacyClassifyCall(inv)

SpecClassify == Init /\ [][ClassifyNext]_vars

Classified == call.fn = "enrichedInvoices" /\ ret.done
LegacyClassified == call.fn = "legacyEnrichedInvoices" /\ ret.done

\* C10: an item with no MasterItem for (supplier, name) gets previousUnitPrice
\* undefined and priceChange = percentChange = 0; an item with one, on an
\* invoice that is not backdated, gets previousUnitPrice = currentPrice,
\* priceChange = unitPrice - currentPrice, percentChange = priceChange /
\* currentPrice x 100, and 0 when currentPrice is 0. The earlier variant does
\* the same against the entry of priceBaselines, which no date guards.
C10_ItemClassification ==
    /\ LegacyClassified =>
           \A k \in 1..Len(call.inv.items) :
               LET item == call.inv.items[k]
                   out == ret.value.items[k]
                   pair == <<call.inv.supplierName, item.name>>
               IN  IF pair \notin DOMAIN priceBaselines
                   THEN /\ ~out.previousUnitPrice.defined
                        /\ out.priceChange = 0
                        /\ IsFraction(out.percentChange, 0, 1)
                   ELSE /\ out.previousUnitPrice = Defined(priceBaselines[pair])
                        /\ out.priceChange = item.unitPrice - priceBaselines[pair]
                        /\ IF priceBaselines[pair] = 0
                           THEN IsFraction(out.percentChange, 0, 1)
                           ELSE IsFraction(out.percentChange,
                                           (item.unitPrice - priceBaselines[pair]) * 100,
                                           priceBaselines[pair])
    /\ Classified =>
        \A k \in 1..Len(call.inv.items) :
            LET item == call.inv.items[k]
                out == ret.value.items[k]
                matches == TargetsOf(masterItems,
                                     [supplierName |-> call.inv.supplierName,
                                      itemName |-> item.name])
            IN  /\ matches = {} =>
                       /\ ~out.previousUnitPrice.defined
                       /\ out.priceChange = 0
                       /\ IsFraction(out.percentChange, 0, 1)
                /\ \A i \in matches :
                       ~isInvoiceBackdated(call.inv.date, masterItems[i].lastUpdated) =>
                           /\ out.previousUnitPrice = Defined(masterItems[i].currentPrice)
                           /\ out.priceChange = item.unitPrice - masterItems[i].currentPrice
                           /\ IF masterItems[i].currentPrice = 0
                              THEN IsFraction(out.percentChange, 0, 1)
                              ELSE IsFraction(out.percentChange,
                                              (item.unitPrice - masterItems[i].currentPrice)
                                                  * 100,
                                              masterItems[i].currentPrice)

\* an item at 1.20 has been classified against a store that holds its pair at
\* 1.00 and the same item name of another supplier
C10_Witness ==
    /\ Classified
    /\ Len(masterItems) = 2
    /\ masterItems[1].name = masterItems[2].name
    /\ ret.value.items[1].previousUnitPrice = Defined(2000)
    /\ ret.value.items[1].priceChange = 400
    /\ IsFraction(ret.value.items[1].percentChange, 20, 1)

-----------------------------------------------------------------------------
(* One (supplier, item) pair invoiced again and again: ingestion and the   *)
(* accept actions over documents of one line                               *)

TimelineNext ==
    \/ Uploading(MaxTimelineDocs)
    \/ Reconciling(TimelineExtractions)

SpecTimeline == InitCurrent /\ [][TimelineNext]_vars

\* C1: an older invoice never rolls back a newer baseline. Every commit puts
\* the date and the price it anchors in front of the history, so the claim
\* reads: of two dated entries of one history, the newer entry's calendar day
\* is not before the older entry's.
C1_OlderInvoiceNeverRollsBack ==
    \A i \in 1..Len(masterItems) :
        LET h == masterItems[i].history
        IN  \A a, b \in 1..Len(h) :
                (a < b /\ NamesDay(h[a].date) /\ NamesDay(h[b].date))
                    => h[a].date.day >= h[b].date.day

\* an item anchored on day 2 has been re-anchored by an invoice without a date
C1_Witness ==
    \E i \in 1..Len(masterItems) :
        /\ Len(masterItems[i].history) = 2
        /\ masterItems[i].history[2].date = IsoDate(2)
        /\ masterItems[i].lastUpdated = NullDate

-----------------------------------------------------------------------------
(* The application with its payment ledger, over documents of one day that *)
(* name one item                                                           *)

LedgerNext ==
    \/ Uploading(MaxDocs)
    \/ Reconciling(LedgerExtractions)
    \/ LegacyReconciling(LedgerExtractions)
    \/ Ledger

SpecLedger == Init /\ [][LedgerNext]_vars

\* new is old with atMost or fewer entries put in front of it
Extends(old, new, atMost) ==
    /\ Len(new) >= Len(old)
    /\ Len(new) <= Len(old) + atMost
    /\ SubSeq(new, Len(new) - Len(old) + 1, Len(new)) = old

\* every MasterItem of the store is in store' under its id and pair, its
\* history extended by atMost entries or fewer
Persists(atMost) ==
    \A i \in 1..Len(masterItems) :
        \E j \in 1..Len(masterItems') :
            /\ masterItems'[j].id = masterItems[i].id
            /\ masterItems'[j].supplierName = masterItems[i].supplierName
            /\ masterItems'[j].name = masterItems[i].name
            /\ Extends(masterItems[i].history, masterItems'[j].history, atMost)

-----------------------------------------------------------------------------
(* Properties of ingestion in the application (Spec)                       *)

\* the step is an ingestion: only ingestion adds an invoice
Ingests == Len(rawInvoices') = Len(rawInvoices) + 1

PairOf(supplierName, itemName) == [supplierName |-> supplierName, itemName |-> itemName]

\* C7: ingesting a document leaves every existing baseline as it was: the
\* currentPrice, lastUpdated and history of each MasterItem and, in the
\* earlier variant, each entry of priceBaselines, whatever the new invoice
\* carries.
C7_IngestionKeepsBaselines ==
    [][Ingests =>
          /\ \A i \in 1..Len(masterItems) :
                 LET after == TargetsOf(masterItems',
                                        PairOf(masterItems[i].supplierName,
                                               masterItems[i].name))
                 IN  /\ after # {}
                     /\ \A j \in after :
                            /\ masterItems'[j].currentPrice = masterItems[i].currentPrice
                            /\ masterItems'[j].lastUpdated = masterItems[i].lastUpdated
                            /\ masterItems'[j].history = masterItems[i].history
          /\ \A p \in DOMAIN priceBaselines :
                 /\ p \in DOMAIN priceBaselines'
                 /\ priceBaselines'[p] = priceBaselines[p]]_vars

\* a second invoice carrying Widget at 1.20 and another date has been ingested
\* and the Widget baseline stands at 1.00 with its one seed entry
C7_Witness ==
    /\ variant = "current"
    /\ Len(rawInvoices) = 2
    /\ rawInvoices[1].items[1] = [name |-> "Widget", unitPrice |-> 2400]
    /\ \E i \in 1..Len(masterItems) :
           /\ masterItems[i].name = "Widget"
           /\ masterItems[i].currentPrice = 2000
           /\ masterItems[i].lastUpdated # rawInvoices[1].date
           /\ Len(masterItems[i].history) = 1

\* the first line of items that carries name
FirstOccurrence(items, name) ==
    items[CHOOSE k \in 1..Len(items) :
              items[k].name = name /\ \A j \in 1..(k - 1) : items[j].name # name]

\* item is seeded from an invoice of that date and a line of that price
SeededFrom(item, date, price) ==
    /\ item.currentPrice = price
    /\ item.lastUpdated = date
    /\ Len(item.history) = 1
    /\ item.history[1].price = price
    /\ item.history[1].date = date
    /\ item.history[1].variance = 0
    /\ IsFraction(item.history[1].percentChange, 0, 1)
    /\ item.history[1].note = <<"Initial Registration">>

\* C8: ingesting a document creates, for every line whose pair has no
\* MasterItem yet, exactly one MasterItem with currentPrice = the unitPrice of
\* the first line of that name, lastUpdated = the invoice date and a single
\* zero-variance 'Initial Registration' entry.
C8_IngestionSeedsNewPairs ==
    [][(variant = "current" /\ Ingests) =>
          LET inv == rawInvoices'[1]
          IN  \A k \in 1..Len(inv.items) :
                  LET pair == PairOf(inv.supplierName, inv.items[k].name)
                      first == FirstOccurrence(inv.items, inv.items[k].name)
                  IN  TargetsOf(masterItems, pair) = {} =>
                          /\ Cardinality(TargetsOf(masterItems', pair)) = 1
                          /\ \A j \in TargetsOf(masterItems', pair) :
                                 SeededFrom(masterItems'[j], inv.date, first.unitPrice)]_vars

\* a document listing Widget at 1.20 and then at 1.00 has been ingested and
\* Widget is registered once, at 1.20
C8_Witness ==
    /\ variant = "current"
    /\ Len(rawInvoices) = 1
    /\ rawInvoices[1].items = <<[name |-> "Widget", unitPrice |-> 2400],
                                [name |-> "Widget", unitPrice |-> 2000]>>
    /\ Len(masterItems) = 1
    /\ SeededFrom(masterItems[1], rawInvoices[1].date, 2400)

\* the invoices, by position, that carry the pair
Carriers(invoices, pair) ==
    {c \in 1..Len(invoices) :
        /\ invoices[c].supplierName = pair.supplierName
        /\ \E k \in 1..Len(invoices[c].items) : invoices[c].items[k].name = pair.itemName}

Max(S) == CHOOSE x \in S : \A y \in S : y <= x

\* C9: the store holds at most one MasterItem per (supplierName, item name)
\* pair; a pair that invoices carry, from one upload batch or from batches
\* that overlap, has exactly one, whose first history entry comes from the
\* invoice registered first (rawInvoices is newest first) and the first line
\* of that name in it.
C9_OneMasterItemPerPair ==
    /\ \A i, j \in 1..Len(masterItems) :
           (/\ masterItems[i].supplierName = masterItems[j].supplierName
            /\ masterItems[i].name = masterItems[j].name) => i = j
    /\ variant = "current" =>
           \A c \in 1..Len(rawInvoices) :
               \A k \in 1..Len(rawInvoices[c].items) :
                   LET pair == PairOf(rawInvoices[c].supplierName,
                                      rawInvoices[c].items[k].name)
                       firstDoc == rawInvoices[Max(Carriers(rawInvoices, pair))]
                       seed == FirstOccurrence(firstDoc.items, pair.itemName)
                   IN  /\ Cardinality(TargetsOf(masterItems, pair)) = 1
                       /\ \A j \in TargetsOf(masterItems, pair) :
                              LET origin == masterItems[j].history[
                                                Len(masterItems[j].history)]
                              IN  /\ origin.price = seed.unitPrice
                                  /\ origin.date = firstDoc.date
                                  /\ origin.note = <<"Initial Registration">>

\* two invoices of two upload batches carry Widget at different prices and
\* dates; Widget is registered once, from the invoice ingested first
C9_Witness ==
    /\ variant = "current"
    /\ Len(rawInvoices) = 2
    /\ uploads = [b \in Batches |-> Idle]
    /\ rawInvoices[1].items[1].name = "Widget"
    /\ rawInvoices[2].items[1].name = "Widget"
    /\ rawInvoices[1].items[1].unitPrice # rawInvoices[2].items[1].unitPrice
    /\ rawInvoices[1].date # rawInvoices[2].date
    /\ Cardinality(TargetsOf(masterItems, PairOf("Acme", "Widget"))) = 1
    /\ \A j \in TargetsOf(masterItems, PairOf("Acme", "Widget")) :
           SeededFrom(masterItems[j], rawInvoices[2].date,
                      rawInvoices[2].items[1].unitPrice)

-----------------------------------------------------------------------------
(* The status of an invoice: invoices of one or two lines, priced at and   *)
(* around a baseline of 1.00, classified against the stores commits built  *)

\* 0.98, 0.99, 1.00, 1.01 and 1.02
StatusPrices == {1960, 1980, 2000, 2020, 2040}

StatusLines ==
    {<<[name |-> "Widget", unitPrice |-> p]>> : p \in StatusPrices}
        \cup {<<[name |-> "Widget", unitPrice |-> p], [name |-> "Gadget", unitPrice |-> q]>> :
                p \in StatusPrices, q \in StatusPrices}

StatusInvoices ==
    {NewInvoice([supplierName |-> "Acme", date |-> IsoDate(MaxDay),
                 invoiceNumber |-> n, items |-> lines, contact |-> NoContact], 1) :
        n \in InvoiceNumbers, lines \in StatusLines}

StatusNext ==
    \/ Committing(MaxProbedEntries)
    \/ \E inv \in StatusInvoices : ClassifyCall(inv)
    \/ \E args \in CommitArgs : LegacyBaselineCall(args)
    \/ \E inv \in StatusInvoices : LegacyClassifyCall(inv)

SpecStatus == Init /\ [][StatusNext]_vars

\* C11: the status is 'mixed' when some item has priceChange > 0.01 and some
\* item has priceChange < -0.01, else 'price_increase' when some item has
\* priceChange > 0.01, else 'price_decrease' when some item has priceChange
\* < -0.01, else 'matched'; items whose |priceChange| is at most 0.01 leave
\* the status 'matched'. Both variants.
C11_StatusPrecedence ==
    (Classified \/ LegacyClassified) =>
        LET items == ret.value.items
            up == \E k \in 1..Len(items) : items[k].priceChange > 20
            down == \E k \in 1..Len(items) : items[k].priceChange < -20
            noise == \A k \in 1..Len(items) :
                         items[k].priceChange >= -20 /\ items[k].priceChange <= 20
        IN  /\ ret.value.status =
                   (CASE up /\ down -> "mixed"
                      [] up /\ ~down -> "price_increase"
                      [] ~up /\ down -> "price_decrease"
                      [] OTHER -> "matched")
            /\ noise => ret.value.status = "matched"

\* an invoice whose lines differ from their baselines by exactly +0.01 and by
\* -0.02 has been classified 'price_decrease'
C11_Witness ==
    /\ Classified
    /\ Len(ret.value.items) = 2
    /\ ret.value.items[1].priceChange = 20
    /\ ret.value.items[2].priceChange = -40
    /\ ret.value.status = "price_decrease"

\* the pending queue of a collection that holds the classified invoice only
PendingOfClassified == pendingVariancesOf(<<call.inv>>, masterItems)

\* C24: status and pending queue decide 'materially changed' alike: a
\* classified invoice has a status other than 'matched' if and only if the
\* pending queue holds a record for it, one for each of its items whose
\* |priceChange| exceeds 0.01: the 'already synced' test removes none of them.
C24_StatusAgreesWithQueue ==
    Classified =>
        LET items == ret.value.items
            material == {k \in 1..Len(items) : Abs(items[k].priceChange) > NoiseThreshold}
        IN  /\ ret.value.status # "matched" <=> PendingOfClassified # <<>>
            /\ Len(PendingOfClassified) = Cardinality(material)
            /\ \A k \in material :
                   \E r \in 1..Len(PendingOfClassified) :
                       /\ PendingOfClassified[r].itemName = items[k].name
                       /\ PendingOfClassified[r].variance = items[k].priceChange

\* an invoice with one line 0.01 above its baseline and one line 0.02 above
\* has been classified: the queue holds the second line only
C24_Witness ==
    /\ Classified
    /\ Len(ret.value.items) = 2
    /\ ret.value.items[1].priceChange = 20
    /\ ret.value.items[2].priceChange = 40
    /\ ret.value.status = "price_increase"
    /\ Len(PendingOfClassified) = 1
    /\ PendingOfClassified[1].itemName = "Gadget"

-----------------------------------------------------------------------------
(* Properties of the classifier and of the pending queue in the            *)
(* application (Spec)                                                      *)

\* the invoice is dated a calendar day before the day the MasterItem of its
\* line k was last anchored on
Predates(inv, k) ==
    \E j \in TargetsOf(masterItems, PairOf(inv.supplierName, inv.items[k].name)) :
        /\ NamesDay(inv.date)
        /\ NamesDay(masterItems[j].lastUpdated)
        /\ inv.date.day < masterItems[j].lastUpdated.day

\* C12: an item of an invoice dated strictly before the lastUpdated of its
\* MasterItem is classified as if there were no baseline (previousUnitPrice
\* undefined, priceChange 0) whatever its unitPrice; an invoice all of whose
\* items are so has status 'matched' and no record in the pending queue.
C12_BackdatedInvoiceIsNotJudged ==
    variant = "current" =>
        \A c \in 1..Len(rawInvoices) :
            LET inv == rawInvoices[c]
                out == EnrichInvoice(inv, masterItems)
            IN  /\ \A k \in 1..Len(inv.items) :
                       Predates(inv, k) =>
                           /\ ~out.items[k].previousUnitPrice.defined
                           /\ out.items[k].priceChange = 0
                /\ (\A k \in 1..Len(inv.items) : Predates(inv, k)) =>
                       /\ out.status = "matched"
                       /\ PendingOfItems(out, out.items, 1, masterItems) = <<>>

\* an invoice of day 1 lists Widget at 1.20 and Gadget at 1.00 while both
\* stand at the other price, anchored on day 2
C12_Witness ==
    /\ variant = "current"
    /\ Len(masterItems) = 2
    /\ \A j \in 1..2 : masterItems[j].lastUpdated = IsoDate(2)
    /\ \E c \in 1..Len(rawInvoices) :
           /\ rawInvoices[c].date = IsoDate(1)
           /\ Len(rawInvoices[c].items) = 2
           /\ \A k \in 1..2 :
                  \E j \in TargetsOf(masterItems,
                                     PairOf("Acme", rawInvoices[c].items[k].name)) :
                      masterItems[j].currentPrice # rawInvoices[c].items[k].unitPrice

\* line k of invoice c is pending: its |priceChange| is above 0.01 and no
\* MasterItem of its pair stands within 0.001 of its unitPrice
IsPending(c, k) ==
    LET inv == rawInvoices[c]
        out == EnrichInvoice(inv, masterItems).items[k]
    IN  /\ (out.priceChange > 20 \/ out.priceChange < -20)
        /\ ~\E j \in TargetsOf(masterItems, PairOf(inv.supplierName, inv.items[k].name)) :
                /\ masterItems[j].currentPrice - inv.items[k].unitPrice < 2
                /\ inv.items[k].unitPrice - masterItems[j].currentPrice < 2

PendingLines ==
    {ck \in (1..Len(rawInvoices)) \X (1..MaxItems) :
        ck[2] <= Len(rawInvoices[ck[1]].items) /\ IsPending(ck[1], ck[2])}

\* record v of the pending queue is the record of line k of invoice c
RecordOf(v, c, k) ==
    LET inv == rawInvoices[c]
        out == EnrichInvoice(inv, masterItems).items[k]
    IN  /\ v.invoiceId = inv.id
        /\ v.supplierName = inv.supplierName
        /\ v.invoiceNumber = inv.invoiceNumber
        /\ v.date = inv.date
        /\ v.itemName = inv.items[k].name
        /\ v.newPrice = inv.items[k].unitPrice
        /\ out.previousUnitPrice.defined
        /\ v.oldPrice = out.previousUnitPrice.v
        /\ v.variance = out.priceChange
        /\ v.pct = out.percentChange

\* C13: the pending queue holds a record for an (invoice, item) exactly when
\* the item's |priceChange| > 0.01 and no matching MasterItem has its
\* currentPrice within 0.001 of the item's unitPrice; the record carries the
\* invoice's supplierName, invoiceNumber and date, the item name, newPrice =
\* unitPrice, oldPrice = the baseline compared against, and the classifier's
\* variance and percent change.
C13_PendingQueueContents ==
    variant = "current" =>
        /\ Len(pendingVariances) = Cardinality(PendingLines)
        /\ \A ck \in PendingLines :
               \E r \in 1..Len(pendingVariances) :
                   RecordOf(pendingVariances[r], ck[1], ck[2])
        /\ \A r \in 1..Len(pendingVariances) :
               \E ck \in PendingLines : RecordOf(pendingVariances[r], ck[1], ck[2])

\* two invoices are in the collection; one has both of its lines in the
\* pending queue, the other has none
C13_Witness ==
    /\ variant = "current"
    /\ Len(rawInvoices) = 2
    /\ Len(pendingVariances) = 2
    /\ pendingVariances[1].invoiceId = pendingVariances[2].invoiceId
    /\ pendingVariances[1].itemName # pendingVariances[2].itemName
    /\ \E c \in 1..2 : \A k \in 1..Len(rawInvoices[c].items) : ~IsPending(c, k)

\* the step is the single accept of record v of the pending queue
SingleAccepts(v) ==
    /\ rawInvoices' = rawInvoices
    /\ masterItems' # masterItems
    /\ masterItems' = updateMasterRate(masterItems, v.supplierName, v.itemName,
                                       v.newPrice, v.invoiceNumber, v.date, now')

\* C14: after the single accept of the pending record of (invoice i, item
\* name n), the pending queue computed on the next pass holds no record for
\* (i, n): no line of invoice i that carries the name n is pending.
C14_AcceptedRecordLeavesQueue ==
    [][variant = "current" =>
          \A ck \in PendingLines :
              \A r \in 1..Len(pendingVariances) :
                  (/\ RecordOf(pendingVariances[r], ck[1], ck[2])
                   /\ SingleAccepts(pendingVariances[r]))
                      => \A k \in 1..Len(rawInvoices[ck[1]].items) :
                             rawInvoices[ck[1]].items[k].name
                                     = rawInvoices[ck[1]].items[ck[2]].name
                                 => ~IsPending(ck[1], k)']_vars

\* the one invoice of the collection lists Widget twice, at 1.20 and at 1.00;
\* its 1.00 line has been accepted and its 1.20 line is pending
C14_Witness ==
    /\ variant = "current"
    /\ Len(rawInvoices) = 1
    /\ rawInvoices[1].items = <<[name |-> "Widget", unitPrice |-> 2400],
                                [name |-> "Widget", unitPrice |-> 2000]>>
    /\ Len(masterItems) = 1
    /\ masterItems[1].currentPrice = 2000
    /\ Len(masterItems[1].history) = 2
    /\ IsPending(1, 1)

-----------------------------------------------------------------------------
(* Properties of successive commits (SpecCore)                             *)

\* C15: a commit repeated with the same (supplierName, itemName, newPrice,
\* invoiceNumber, invoiceDate) is idempotent on the baseline: the item's
\* currentPrice and lastUpdated after the second commit are those after the
\* first, and the entry the second commit writes, when the first was not
\* refused as backdated, has variance 0 and percentChange 0.
C15_RepeatedCommitIsIdempotent ==
    [][(Committed /\ Committed' /\ call'.args = call.args) =>
          /\ TargetsOf(masterItems', call.args) = TargetsOf(masterItems, call.args)
          /\ \A i \in TargetsOf(masterItems, call.args) :
                 /\ masterItems'[i].currentPrice = masterItems[i].currentPrice
                 /\ masterItems'[i].lastUpdated = masterItems[i].lastUpdated
                 /\ \/ masterItems = call.prev /\ masterItems' = masterItems
                    \/ /\ masterItems # call.prev
                       /\ Tail(masterItems'[i].history) = masterItems[i].history
                       /\ Head(masterItems'[i].history).variance = 0
                       /\ IsFraction(Head(masterItems'[i].history).percentChange, 0, 1)
                       /\ Head(masterItems'[i].history).price = masterItems[i].currentPrice]_vars

\* a commit has found the item as a commit of the same price, date and
\* invoice number left it, and has written an entry of variance 0
C15_Witness ==
    /\ Committed
    /\ \E i \in TargetsOf(call.prev, call.args) :
           /\ Len(call.prev[i].history) = 2
           /\ call.prev[i].currentPrice = call.args.newPrice
           /\ call.prev[i].lastUpdated = call.args.invDate
           /\ Head(call.prev[i].history).price = call.args.newPrice
           /\ Head(call.prev[i].history).variance # 0
           /\ Len(masterItems[i].history) = 3
           /\ Head(masterItems[i].history).variance = 0

-----------------------------------------------------------------------------
(* The batch accept on its own: acceptSelectedVariances applied to the     *)
(* pending queues ingestion builds for one (supplier, item) pair           *)

\* acceptSelectedVariances with varianceSelection = selection, recorded
BatchCall(selection, t) ==
    LET selected == SelectSeq(pendingVariances, LAMBDA v : v.key \in selection)
    IN  /\ variant = "current"
        /\ selection # {}
        /\ masterItems' = CommitAll(masterItems, selected, 1, t)
        /\ HistoryBounded(masterItems')
        /\ now' = t
        /\ call' = [fn |-> "acceptSelectedVariances", selected |-> selected,
                    prev |-> masterItems]
        /\ ret' = NoRet
        /\ UNCHANGED <<variant, priceBaselines, rawInvoices, suppliers, uploads,
                       loading, uploaded>>

BatchNext ==
    \/ Uploading(MaxTimelineDocs)
    \/ \E b \in Batches, data \in TimelineExtractions, t \in ClockReadings :
           ExtractResolved(b, data, t)
    \/ \E selection \in SUBSET KeysOf(pendingVariances) :
           \E t \in CommitClock(masterItems, pendingVariances) : BatchCall(selection, t)

SpecBatch == InitCurrent /\ [][BatchNext]_vars

\* single updateMasterRate calls made one after another, in the order of records
RECURSIVE OneByOne(_, _, _)
OneByOne(store, records, t) ==
    IF records = <<>> THEN store
    ELSE OneByOne(updateMasterRate(store, Head(records).supplierName,
                                   Head(records).itemName, Head(records).newPrice,
                                   Head(records).invoiceNumber, Head(records).date, t),
                  Tail(records), t)

\* the k-th of these calls changes nothing
IsNoOp(store, records, k, t) ==
    OneByOne(store, SubSeq(records, 1, k), t) = OneByOne(store, SubSeq(records, 1, k - 1), t)

BatchAccepted == call.fn = "acceptSelectedVariances"

\* C16: acceptSelectedVariances leaves the store in the state that single
\* updateMasterRate calls for the selected records, made one after another in
\* the order of the pending queue, reach; and when one of them is a no-op
\* (its pair has become backdated), the store is the one reached without
\* that record in the selection.
C16_BatchIsSequentialCommits ==
    [][(BatchAccepted' /\ call' # call) =>
          /\ masterItems' = OneByOne(call'.prev, call'.selected, now')
          /\ \A k \in 1..Len(call'.selected) :
                 IsNoOp(call'.prev, call'.selected, k, now') =>
                     masterItems' = OneByOne(call'.prev,
                                             RemoveAt(call'.selected, k), now')]_vars

\* a batch of two records of one pair, dated day 2 and day 1, has met the
\* item without a date: the first was committed and the second refused
C16_Witness ==
    /\ BatchAccepted
    /\ Len(call.selected) = 2
    /\ call.selected[1].date = IsoDate(2)
    /\ call.selected[2].date = IsoDate(1)
    /\ Len(call.prev) = 1
    /\ call.prev[1].lastUpdated = NullDate
    /\ masterItems[1].lastUpdated = IsoDate(2)
    /\ Len(masterItems[1].history) = 2

-----------------------------------------------------------------------------
(* Ingestion of records the extraction service did not fill: supplierName  *)
(* or invoiceNumber null, or no items at all                               *)

\* records of one line whose supplierName or invoiceNumber may be null
IntakeExtractions ==
    {[supplierName |-> s, date |-> IsoDate(1), invoiceNumber |-> n,
      items |-> <<[name |-> "Widget", unitPrice |-> p]>>, contact |-> NoContact] :
        s \in {"Acme", Absent}, n \in {"INV-1", Absent}, p \in Prices}

\* extractInvoiceData resolves with a record that has no items. The try block
\* queues its three updaters and reports success; in the render that follows,
\* the updater of setMasterItems calls data.items.forEach on undefined and
\* throws a TypeError. No error boundary is mounted, so React unmounts the
\* application; nothing of that render is committed or saved.
ExtractResolvedWithoutItems(b, t) ==
    /\ variant = "current"
    /\ uploads[b].pc = "extract"
    /\ now' = t
    /\ call' = [fn |-> "render"]
    /\ ret' = [done |-> TRUE, threw |-> "TypeError"]
    /\ NextFile(b)
    /\ UNCHANGED <<variant, masterItems, priceBaselines, rawInvoices, suppliers,
                   uploaded>>

\* the application has been unmounted by an error thrown in a render
Crashed == call.fn = "render" /\ ret.done

\* once unmounted, the application takes no further step
Mounted(Handler) == ~Crashed /\ Handler

IntakeNext ==
    \/ \E b \in Batches, n \in 1..MaxFiles : Mounted(StartUpload(b, n, MaxDocs))
    \/ \E b \in Batches : Mounted(FileLoaded(b))
    \/ \E b \in Batches : Mounted(ExtractRejected(b))
    \/ \E b \in Batches, data \in IntakeExtractions, t \in ClockReadings :
           Mounted(ExtractResolved(b, data, t))
    \/ \E b \in Batches, t \in ClockReadings :
           Mounted(ExtractResolvedWithoutItems(b, t))
    \/ \E k \in 1..Len(pendingVariances) :
           \E t \in CommitClock(masterItems, <<pendingVariances[k]>>) :
               Mounted(AcceptVariance(pendingVariances[k], t))
    \/ \E selection \in SUBSET KeysOf(pendingVariances) :
           \E t \in CommitClock(masterItems, pendingVariances) :
               Mounted(acceptSelectedVariances(pendingVariances, selection, t))

SpecIntake == InitCurrent /\ [][IntakeNext]_vars

\* C17: a record without supplierName or without invoiceNumber is refused:
\* it adds no invoice, creates or merges no Supplier and registers no
\* MasterItem. So no invoice, Supplier, MasterItem or history entry ever
\* carries a null supplierName or invoiceNumber.
C17_NamelessRecordIsRefused ==
    /\ \A c \in 1..Len(rawInvoices) :
           rawInvoices[c].supplierName # Absent /\ rawInvoices[c].invoiceNumber # Absent
    /\ \A s \in 1..Len(suppliers) : suppliers[s].name # Absent
    /\ \A i \in 1..Len(masterItems) :
           /\ masterItems[i].supplierName # Absent
           /\ \A e \in 1..Len(masterItems[i].history) :
                  masterItems[i].history[e].invoiceNumber # Absent

\* a record without supplierName and invoiceNumber has been ingested: its
\* invoice, a Supplier without a name and a MasterItem without a supplier
\* are stored
C17_Witness ==
    /\ Len(rawInvoices) = 1
    /\ rawInvoices[1].supplierName = Absent
    /\ rawInvoices[1].invoiceNumber = Absent
    /\ Len(suppliers) = 1
    /\ suppliers[1].name = Absent
    /\ Len(masterItems) = 1
    /\ masterItems[1].supplierName = Absent

\* the step ends the handling of a document of batch b without an invoice
FailsDocument(b) ==
    /\ uploads[b].pc = "extract"
    /\ uploads'[b] # uploads[b]
    /\ rawInvoices' = rawInvoices

\* C18: the handling of one document is all-or-nothing: when it fails (the
\* extraction throws, returns no text or unparseable text, or returns a
\* record without items), the invoice collection, the baseline store and the
\* supplier registry are what they were before the document, and the
\* application has not crashed.
C18_DocumentIsAllOrNothing ==
    [][\A b \in Batches :
           FailsDocument(b) =>
               /\ masterItems' = masterItems
               /\ suppliers' = suppliers
               /\ ~Crashed']_vars

\* the application has crashed on the second document of a batch, after the
\* first was ingested
C18_Witness ==
    /\ Crashed
    /\ Len(rawInvoices) = 1
    /\ \E b \in Batches : uploads[b].pc = "idle" /\ uploaded = 2

-----------------------------------------------------------------------------
(* Properties of the upload loop in the application (Spec)                 *)

\* the step ends the extraction of the document at hand of batch b
EndsExtraction(b) == uploads[b].pc = "extract" /\ uploads'[b] # uploads[b]

-----------------------------------------------------------------------------
(* Properties of the payment flags (SpecLedger)                            *)

Statuses == {"paid", "hold", "outstanding"}

\* no invoice of the collection is both settled and on hold
Exclusive(invoices) ==
    \A i \in 1..Len(invoices) : ~(invoices[i].isPaid /\ invoices[i].isHold)

\* the collection is exclusive, and any of the three bulk markings keeps it so
FlagsExclude ==
    /\ Exclusive(rawInvoices)
    /\ \A status \in Statuses :
           Exclusive(MarkInvoices(rawInvoices, LAMBDA id : TRUE,
                                  status = "paid", status = "hold"))

\* a step that adds an invoice adds it neither settled nor on hold
NewInvoiceIsOutstanding ==
    Len(rawInvoices') > Len(rawInvoices) =>
        /\ ~rawInvoices'[1].isPaid
        /\ ~rawInvoices'[1].isHold

\* C20: after any sequence of ingestions, bulk markings ('paid', 'hold',
\* 'outstanding') and detail-modal status changes, no invoice is both
\* settled and on hold; a newly ingested invoice is neither.
C20_PaidAndHoldExclude == []FlagsExclude /\ [][NewInvoiceIsOutstanding]_vars

\* one invoice settled, another on hold
C20_Witness ==
    /\ variant = "current"
    /\ \E i, j \in 1..Len(rawInvoices) :
           /\ rawInvoices[i].isPaid /\ ~rawInvoices[i].isHold
           /\ rawInvoices[j].isHold /\ ~rawInvoices[j].isPaid

-----------------------------------------------------------------------------
(* Properties of the identifiers (Spec)                                    *)

\* C21: the ids of the invoices of the collection are pairwise distinct,
\* whatever the timing of the ingestions, and every invoice enters the
\* collection neither settled nor on hold, with status 'matched'.
C21_InvoiceIdsAreDistinct ==
    /\ \A i, j \in 1..Len(rawInvoices) :
           rawInvoices[i].id = rawInvoices[j].id => i = j
    /\ \A i \in 1..Len(rawInvoices) : rawInvoices[i].status = "matched"

\* two documents ingested while Date.now() reads the same millisecond
C21_Witness ==
    /\ variant = "current"
    /\ Len(rawInvoices) = 2
    /\ rawInvoices[1].id = rawInvoices[2].id
    /\ rawInvoices[1].date # rawInvoices[2].date

-----------------------------------------------------------------------------
(* The supplier registry on its own: documents of two suppliers that carry *)
(* contact fields                                                          *)

\* the values extraction gives abn: missing, empty, or one of two numbers
AbnValues == {Absent, EmptyString, "11 111", "22 222"}
TelValues == {Absent, "555"}

SupplierContacts ==
    {[f \in ContactFields |->
         IF f = "abn" THEN a ELSE IF f = "tel" THEN p ELSE Absent] :
             a \in AbnValues, p \in TelValues}

SupplierExtractions ==
    {[supplierName |-> s, date |-> IsoDate(1), invoiceNumber |-> "INV-1",
      items |-> <<[name |-> "Widget", unitPrice |-> 2000]>>, contact |-> c] :
          s \in SupplierNames, c \in SupplierContacts}

SupplierNext ==
    \/ Uploading(MaxTimelineDocs)
    \/ \E b \in Batches, data \in SupplierExtractions, t \in ClockReadings :
           ExtractResolved(b, data, t)

SpecSuppliers == InitCurrent /\ [][SupplierNext]_vars

\* the Suppliers of the registry named name
Named(registry, name) == {i \in 1..Len(registry) : registry[i].name = name}

\* the step left the registry as a merge of data into it, an incoming value
\* standing when Wins holds of it
MergedInto(data, Wins(_)) ==
    LET before == Named(suppliers, data.supplierName)
        after == Named(suppliers', data.supplierName)
    IN  /\ Cardinality(after) = 1
        /\ Len(suppliers') = Len(suppliers) + (IF before = {} THEN 1 ELSE 0)
        /\ \A i \in 1..Len(suppliers) :
               IF i \in before
               THEN suppliers'[i].id = suppliers[i].id /\ i \in after
               ELSE suppliers'[i] = suppliers[i]
        /\ \A j \in after, f \in ContactFields :
               suppliers'[j].details[f] =
                   IF Wins(data.contact[f]) THEN data.contact[f]
                   ELSE IF j \in before THEN suppliers[j].details[f] ELSE Absent

\* no two Suppliers of the registry have one name
NamesAreUnique ==
    \A i, j \in 1..Len(suppliers) : suppliers[i].name = suppliers[j].name => i = j

IngestionMerges(Wins(_)) ==
    \A b \in Batches, data \in SupplierExtractions, t \in ClockReadings :
        ExtractResolved(b, data, t) => MergedInto(data, Wins)

-----------------------------------------------------------------------------
(* The two sorted lists on their own: documents of one pair, dated, dated  *)
(* with text no Date can parse, or not dated                               *)

\* date is a required string of the response schema: a document without a
\* date comes back with "" or with null
SortDates == {NullDate, EmptyDate} \cup {IsoDate(d) : d \in Days}

SortExtractions ==
    {[supplierName |-> "Acme", date |-> d, invoiceNumber |-> "INV-1",
      items |-> <<[name |-> "Widget", unitPrice |-> p]>>, contact |-> NoContact] :
          d \in SortDates, p \in Prices}

SortNext ==
    \/ Uploading(MaxTimelineDocs)
    \/ \E b \in Batches, data \in SortExtractions, t \in ClockReadings :
           ExtractResolved(b, data, t)

SpecSort == InitCurrent /\ [][SortNext]_vars

\* no entry of the list is dated before an entry that follows it
DescendingByDate(list) ==
    \A i, j \in 1..Len(list) :
        i < j => ~NumLt(DateGetTime(list[i].date), DateGetTime(list[j].date))

\* the entries of one date are in the list in the order they have in source
KeepsOrderOfTies(list, source) ==
    \A d \in SortDates :
        SelectSeq(list, LAMBDA x : x.date = d) = SelectSeq(source, LAMBDA x : x.date = d)

\* the invoices classified, in the order of the collection
Unsorted == [i \in 1..Len(rawInvoices) |-> EnrichInvoice(rawInvoices[i], masterItems)]

\* C23: the enriched invoice list and the pending-variance list are each
\* ordered by descending invoice date, and entries of one date keep the
\* relative order they have in the invoice collection.
C23_ListsSortedByDate ==
    /\ DescendingByDate(enrichedInvoices)
    /\ DescendingByDate(pendingVariances)
    /\ KeepsOrderOfTies(enrichedInvoices, Unsorted)
    /\ KeepsOrderOfTies(pendingVariances, PendingOfInvoices(Unsorted, 1, masterItems))

\* an invoice whose date does not parse stands between an older and a newer
\* one, and the list shows the older one first
C23_Witness ==
    /\ Len(rawInvoices) = 3
    /\ rawInvoices[1].date = IsoDate(1)
    /\ rawInvoices[2].date = EmptyDate
    /\ rawInvoices[3].date = IsoDate(2)
    /\ enrichedInvoices[1].date = IsoDate(1)
    /\ enrichedInvoices[3].date = IsoDate(2)

-----------------------------------------------------------------------------
(* Accept after accept: the batch accept recorded together with the        *)
(* collection it ran on                                                    *)

\* acceptSelectedVariances with varianceSelection = selection, recorded
DrainCall(selection, t) ==
    LET selected == SelectSeq(pendingVariances, LAMBDA v : v.key \in selection)
    IN  /\ variant = "current"
        /\ selection # {}
        /\ masterItems' = CommitAll(masterItems, selected, 1, t)
        /\ HistoryBounded(masterItems')
        /\ now' = t
        /\ call' = [fn |-> "acceptSelectedVariances", selected |-> selected,
                    invoices |-> rawInvoices]
        /\ ret' = NoRet
        /\ UNCHANGED <<variant, priceBaselines, rawInvoices, suppliers, uploads,
                       loading, uploaded>>

DrainNext ==
    \/ Uploading(MaxTimelineDocs)
    \/ \E b \in Batches, data \in TimelineExtractions, t \in ClockReadings :
           ExtractResolved(b, data, t)
    \/ \E selection \in SUBSET KeysOf(pendingVariances) :
           \E t \in CommitClock(masterItems, pendingVariances) : DrainCall(selection, t)

SpecDrain == InitCurrent /\ [][DrainNext]_vars

\* no two lines of the collection have one pending-record key
DistinctLines ==
    \A c, d \in 1..Len(rawInvoices) :
        \A k \in 1..Len(rawInvoices[c].items), l \in 1..Len(rawInvoices[d].items) :
            (rawInvoices[c].id = rawInvoices[d].id
                /\ rawInvoices[c].items[k].name = rawInvoices[d].items[l].name)
                    => (c = d /\ k = l)

\* the last step was an accept and nothing has been ingested since
AfterAccept == call.fn = "acceptSelectedVariances" /\ call.invoices = rawInvoices

\* C25: with no further ingestion, a record that has been accepted and has
\* left the pending queue does not come back into it by the next accept (so
\* that accepting again and again empties the queue), also when several
\* invoices of one pair carry one date and different prices.
C25_AcceptedRecordStaysOut ==
    [][(AfterAccept /\ DistinctLines /\ rawInvoices' = rawInvoices) =>
           \A k \in 1..Len(call.selected) :
               call.selected[k].key \notin KeysOf(pendingVariances) =>
                   call.selected[k].key \notin
                       KeysOf(pendingVariancesOf(rawInvoices', masterItems'))]_vars

\* two invoices of one pair and one date, at 1.00 and at 1.20: the record of
\* the second was accepted, then the record of the first, and the record of
\* the second is pending again, as it was at the start
C25_Witness ==
    /\ AfterAccept
    /\ DistinctLines
    /\ Len(rawInvoices) = 2
    /\ rawInvoices[1].date = rawInvoices[2].date
    /\ rawInvoices[1].date.kind = "date"
    /\ Len(masterItems) = 1
    /\ Len(masterItems[1].history) = 3
    /\ masterItems[1].history[1].price = masterItems[1].history[3].price
    /\ Len(pendingVariances) = 1
    /\ Len(call.selected) = 1
    /\ call.selected[1].key # pendingVariances[1].key

-----------------------------------------------------------------------------
(* Properties of the baseline store in the application (Spec)              *)

\* C26: every MasterItem has a history that is not empty, and its newest
\* entry agrees with the anchor: currentPrice is the price of that entry and
\* lastUpdated its date.
C26_AnchorIsNewestEntry ==
    \A i \in 1..Len(masterItems) :
        /\ masterItems[i].history # <<>>
        /\ masterItems[i].currentPrice = masterItems[i].history[1].price
        /\ masterItems[i].lastUpdated = masterItems[i].history[1].date

\* a MasterItem registered at one price and day, then moved by an accept to
\* another price and a later day
C26_Witness ==
    \E i \in 1..Len(masterItems) :
        /\ Len(masterItems[i].history) = 2
        /\ masterItems[i].history[1].price # masterItems[i].history[2].price
        /\ masterItems[i].history[1].date # masterItems[i].history[2].date
        /\ masterItems[i].currentPrice = masterItems[i].history[1].price

\* C27: the history of every MasterItem is a price chain: its oldest entry
\* has variance 0, and the variance of every other entry is its price minus
\* the price of the entry next older.
C27_HistoryIsPriceChain ==
    \A i \in 1..Len(masterItems) :
        LET history == masterItems[i].history
        IN  /\ history # <<>>
            /\ history[Len(history)].variance = 0
            /\ \A e \in 1..(Len(history) - 1) :
                   history[e].variance = history[e].price - history[e + 1].price

\* a history of three entries: registered at 1.00, moved up by 0.20 and
\* down again by 0.20
C27_Witness ==
    \E i \in 1..Len(masterItems) :
        /\ Len(masterItems[i].history) = 3
        /\ masterItems[i].history[1].variance = -400
        /\ masterItems[i].history[2].variance = 400
        /\ masterItems[i].history[3].variance = 0

\* the MasterItem the history modal shows for id: masterItems.find(m => m.id === id)
FoundById(id) == masterItems[FindIndex(masterItems, LAMBDA m : m.id = id)]

\* C28: any two distinct MasterItems have distinct ids, also when they are
\* registered from several new items of one document, so that looking a
\* MasterItem up by its id gives that MasterItem.
C28_MasterItemIdsAreDistinct ==
    /\ \A i, j \in 1..Len(masterItems) :
           masterItems[i].id = masterItems[j].id => i = j
    /\ \A i \in 1..Len(masterItems) : FoundById(masterItems[i].id) = masterItems[i]

\* one document with two new items has been ingested: its two MasterItems
\* have one id, and the lookup by the id of the second gives the first
C28_Witness ==
    /\ variant = "current"
    /\ Len(rawInvoices) = 1
    /\ Len(masterItems) = 2
    /\ masterItems[1].id = masterItems[2].id
    /\ masterItems[1].name # masterItems[2].name
    /\ FoundById(masterItems[2].id) = masterItems[1]

\* C29: for every invoice of the collection and every one of its items the
\* baseline store holds a MasterItem of (invoice.supplierName, item.name):
\* the invoice is classified only once its items are registered, and such an
\* item has previousUnitPrice undefined only when its invoice is backdated.
C29_EveryLineHasMasterItem ==
    variant = "current" =>
        \A c \in 1..Len(rawInvoices) :
            \A k \in 1..Len(rawInvoices[c].items) :
                LET inv == rawInvoices[c]
                    idx == MasterIndex(masterItems, inv.supplierName, inv.items[k].name)
                    out == EnrichInvoice(inv, masterItems).items[k]
                IN  /\ idx > 0
                    /\ ~out.previousUnitPrice.defined =>
                           isInvoiceBackdated(inv.date, masterItems[idx].lastUpdated)

\* two invoices with two items each, one of them backdated against the
\* MasterItem of its first line
C29_Witness ==
    /\ variant = "current"
    /\ Len(rawInvoices) = 2
    /\ \A c \in 1..2 : Len(rawInvoices[c].items) = 2
    /\ Len(masterItems) = 2
    /\ \E c \in 1..2 :
           ~EnrichInvoice(rawInvoices[c], masterItems).items[1].previousUnitPrice.defined

-----------------------------------------------------------------------------
(* The upload loop with every outcome of a file read and of an extraction, *)
(* under fair scheduling of the events the loop awaits                     *)

\* reader.readAsDataURL(file) fails: the reader fires error, not load. The
\* promise the loop awaits has no reject and the reader no onerror, so the
\* promise stays pending and the loop never resumes
FileUnreadable(b) ==
    /\ uploads[b].pc = "read"
    /\ uploads' = [uploads EXCEPT ![b].pc = "pending"]
    /\ UNCHANGED <<variant, masterItems, priceBaselines, rawInvoices, suppliers,
                   loading, now, uploaded, call, ret>>

UploadNext ==
    \/ Uploading(MaxDocs)
    \/ \E b \in Batches : FileUnreadable(b)
    \/ \E b \in Batches, data \in TimelineExtractions, t \in ClockReadings :
           ExtractResolved(b, data, t)

\* the event batch b awaits arrives: the file read ends, the extraction
\* resolves or it rejects
Settles(b) ==
    \/ FileLoaded(b)
    \/ FileUnreadable(b)
    \/ ExtractRejected(b)
    \/ \E data \in TimelineExtractions, t \in ClockReadings : ExtractResolved(b, data, t)

\* every file read ends and every extraction call settles
SpecUpload ==
    /\ InitCurrent
    /\ [][UploadNext]_vars
    /\ \A b \in Batches : WF_vars(Settles(b))

Running(b) == uploads[b].pc # "idle"

\* C30: every upload batch terminates: once handleFileUpload has started,
\* whatever the outcome of each file read and of each extraction call, the
\* loop finishes and loading is false again.
C30_BatchTerminates ==
    \A b \in Batches : Running(b) ~> (~Running(b) /\ ~loading)

\* a batch whose file could not be read: its loop is suspended for good and
\* the loading overlay stays
C30_Witness ==
    /\ uploads[1] = [pc |-> "pending", remaining |-> 1]
    /\ uploads[2] = Idle
    /\ uploaded = 2
    /\ Len(rawInvoices) = 1
    /\ loading

====
